---- MODULE Spec2Model ----
(***************************************************************************)
(* Model of src/app.py: the symbol normaliser, the per-ticker verification *)
(* function verify_stock_yahoo, and the Streamlit session around them (the *)
(* cooldown block, the AI-pick button, the batch verification button and   *)
(* the held result table).                                                 *)
(*                                                                         *)
(* Strings are sequences of one-character strings.  Numbers are integers:  *)
(* prices, P/E ratios, volumes and RSI values are drawn from integer       *)
(* samples, and every comparison against a decimal threshold (-0.15,       *)
(* -0.05, 1.5) is made exactly, by cross-multiplication.                   *)
(***************************************************************************)
EXTENDS Integers, Sequences, FiniteSets, TLC

VARIABLES
    norm_in,        \* normaliser study: the raw string handed to the cleaning code
    norm_out,       \* normaliser study: [done, s], the clean_symbol computed
    v_sym,          \* verification study: the symbol argument
    v_md,           \* verification study: what the market-data collaborator answers
    v_ret,          \* verification study: [done, r], the value returned
    now,            \* session: time.time(), whole seconds
    session_state,  \* session: st.session_state (last_run_time, ai_picks, final_result)
    button,         \* session: the button the cooldown block rendered on the last script run
    pc,             \* session: "idle" between script runs, "batch" inside the batch loop
    idx,            \* session: number of tickers the batch loop has finished
    results,        \* session: the list `results` of the running batch
    crashed,        \* session: an exception escaped the script run
    tally,          \* history: what the running batch was given, counted per ticker
    run_log,        \* history: the verification run that has just run to its end
    pick_calls      \* history: times of the last two get_ai_picks invocations

vars == <<norm_in, norm_out, v_sym, v_md, v_ret, now, session_state, button,
          pc, idx, results, crashed, tally, run_log, pick_calls>>

normVars == <<norm_in, norm_out>>
verifyVars == <<v_sym, v_md, v_ret>>
sessionVars == <<now, session_state, button, pc, idx, results, crashed,
                 tally, run_log, pick_calls>>

(***************************************************************************)
(* Python string operations used by the cleaning code (lines 80-82).       *)
(***************************************************************************)
LowerLetters == <<"a","b","c","d","e","f","g","h","i","j","k","l","m",
                  "n","o","p","q","r","s","t","u","v","w","x","y","z">>
UpperLetters == <<"A","B","C","D","E","F","G","H","I","J","K","L","M",
                  "N","O","P","Q","R","S","T","U","V","W","X","Y","Z">>

\* the whitespace of the sample strings (str.strip() also drops tabs and
\* line breaks, which no sample holds)
Whitespace == {" "}

\* str.upper() on one character
UpperChar(c) ==
    IF \E i \in 1..Len(LowerLetters) : LowerLetters[i] = c
    THEN UpperLetters[CHOOSE i \in 1..Len(LowerLetters) : LowerLetters[i] = c]
    ELSE c

\* str.upper()
Upper(s) == [i \in 1..Len(s) |-> UpperChar(s[i])]

\* str.strip(): drop leading and trailing whitespace
RECURSIVE LStrip(_)
LStrip(s) ==
    IF s = <<>> THEN <<>>
    ELSE IF Head(s) \in Whitespace THEN LStrip(Tail(s)) ELSE s

RECURSIVE RStrip(_)
RStrip(s) ==
    IF s = <<>> THEN <<>>
    ELSE IF s[Len(s)] \in Whitespace THEN RStrip(SubSeq(s, 1, Len(s) - 1)) ELSE s

Strip(s) == RStrip(LStrip(s))

\* s starts with the non-empty string old
StartsWith(s, old) ==
    /\ Len(s) >= Len(old)
    /\ SubSeq(s, 1, Len(old)) = old

\* str.replace(old, new) for a non-empty old: left to right, non-overlapping,
\* one pass (text produced by a replacement is not scanned again)
RECURSIVE Replace(_, _, _)
Replace(s, old, new) ==
    IF s = <<>> THEN <<>>
    ELSE IF StartsWith(s, old)
         THEN new \o Replace(SubSeq(s, Len(old) + 1, Len(s)), old, new)
         ELSE <<Head(s)>> \o Replace(Tail(s), old, new)

\* old occurs somewhere in s
Contains(s, old) ==
    \E i \in 1..(Len(s) - Len(old) + 1) : SubSeq(s, i, i + Len(old) - 1) = old

NASDAQ_PREFIX == <<"N","A","S","D","A","Q",":">>
NYSE_PREFIX == <<"N","Y","S","E",":">>

\* lines 80-82: symbol.strip().upper(), then
\* .replace('.', '-').replace('NASDAQ:', '').replace('NYSE:', '')
CleanSymbol(symbol) ==
    LET stripped == Upper(Strip(symbol))
    IN  Replace(Replace(Replace(stripped, <<".">>, <<"-">>), NASDAQ_PREFIX, <<>>),
                NYSE_PREFIX, <<>>)

(***************************************************************************)
(* Python values as the verification code sees them.  A dictionary field   *)
(* is absent, None or a number; a float may be NaN; a collaborator call    *)
(* may raise.                                                              *)
(***************************************************************************)
Absent == [k |-> "absent", v |-> 0]
Null == [k |-> "null", v |-> 0]
NaN == [k |-> "nan", v |-> 0]
Raises == [k |-> "raise", v |-> 0]
Unset == [k |-> "unset", v |-> 0]
Num(n) == [k |-> "num", v |-> n]

IsNum(x) == x.k = "num"

AbsentText == [k |-> "absent", s |-> <<>>]
Text(s) == [k |-> "str", s |-> s]

\* dict.get(key, default): the default only when the key is absent; a key
\* that is present with the value None (or 0) yields that value
DictGet(field, default) == IF field.k = "absent" THEN default ELSE field

\* the {} that line 92 substitutes when ticker.info raises
EmptyInfo ==
    [currentPrice |-> Absent, regularMarketPrice |-> Absent,
     forwardPE |-> Absent, trailingPE |-> Absent, fiftyTwoWeekHigh |-> Absent,
     sector |-> AbsentText, shortName |-> AbsentText]

(***************************************************************************)
(* Exact rational arithmetic for the derived metrics.                      *)
(***************************************************************************)
Frac(n, d) == [n |-> n, d |-> d]

\* x < y for fractions with non-zero denominators
FracLt(x, y) ==
    IF (x.d > 0) = (y.d > 0) THEN x.n * y.d < y.n * x.d
                             ELSE x.n * y.d > y.n * x.d

\* round(n / d) to the nearest integer, ties to the even one (Python's round)
RoundHalfEven(n, d) ==
    LET nn == IF d < 0 THEN 0 - n ELSE n
        dd == IF d < 0 THEN 0 - d ELSE d
        q == nn \div dd
        r == nn % dd
    IN  IF 2 * r < dd THEN q
        ELSE IF 2 * r > dd THEN q + 1
        ELSE IF q % 2 = 0 THEN q ELSE q + 1

RECURSIVE SeqMax(_)
SeqMax(s) ==
    IF Len(s) = 1 THEN s[1]
    ELSE LET m == SeqMax(Tail(s)) IN IF s[1] > m THEN s[1] ELSE m

RECURSIVE SeqSum(_)
SeqSum(s) == IF s = <<>> THEN 0 ELSE Head(s) + SeqSum(Tail(s))

Closes(hist) == [i \in 1..Len(hist) |-> hist[i].Close]
Volumes(hist) == [i \in 1..Len(hist) |-> hist[i].Volume]

(***************************************************************************)
(* verify_stock_yahoo, lines 77-171.                                       *)
(***************************************************************************)
RSI_LENGTH == 14
SCORE_CAP == 100

\* ta.rsi(hist['Close'], length=14), line 124: the library's answer `lib`
\* for this close series.  None (the library refuses a series shorter than
\* the period) stays None; otherwise the result is a series indexed like the
\* input, so it is empty exactly when the input is, and its last value is a
\* number or NaN.
TaRsi(closes, lib) ==
    IF lib.k \in {"raise", "none"} THEN [k |-> lib.k, len |-> 0, last |-> NaN]
    ELSE [k |-> "series", len |-> Len(closes), last |-> lib]

\* lines 96-99: fast_info['last_price'], and on an exception the info lookup
CurrentPrice(md, info) ==
    IF md.fast.k = "raise"
    THEN DictGet(info.currentPrice, DictGet(info.regularMarketPrice, Num(0)))
    ELSE md.fast

\* lines 105-106
ValuationRatio(info) ==
    LET pe == DictGet(info.forwardPE, DictGet(info.trailingPE, Num(0)))
    IN  IF pe.k = "null" THEN Num(0) ELSE pe

\* lines 118-119: `not high_52` is true of None and of 0
ReferenceHigh(info, hist, curr_price) ==
    LET high_52 == DictGet(info.fiftyTwoWeekHigh, Num(SeqMax(Closes(hist))))
    IN  IF high_52.k = "null" \/ (IsNum(high_52) /\ high_52.v = 0)
        THEN curr_price ELSE high_52

\* lines 128-130: vol_today / vol_avg if vol_avg > 0 else 1.0
VolumeRatio(hist) ==
    LET vol_today == hist[Len(hist)].Volume
        vol_sum == SeqSum(Volumes(hist))
    IN  IF vol_sum > 0 THEN Frac(vol_today * Len(hist), vol_sum) ELSE Frac(1, 1)

\* a comparison with NaN is false
RsiLt(rsi, t) == IsNum(rsi) /\ rsi.v < t
RsiGt(rsi, t) == IsNum(rsi) /\ rsi.v > t

\* lines 133-151: the accumulated score
RawScore(drop_pct, rsi, pe, vol_ratio) ==
      (IF FracLt(drop_pct, Frac(-15, 100)) THEN 40 ELSE 0)
    + (IF RsiLt(rsi, 40) THEN 30 ELSE 0)
    + (IF 0 < pe.v /\ pe.v < 25 THEN 30 ELSE 0)
    + (IF FracLt(Frac(15, 10), vol_ratio) THEN 10 ELSE 0)

\* lines 134-151: the labels, in the order they are appended
Reasons(drop_pct, rsi, pe, vol_ratio) ==
       (IF FracLt(drop_pct, Frac(-15, 100)) THEN <<"overfallen">> ELSE <<>>)
    \o (IF RsiLt(rsi, 40) THEN <<"rsi-oversold">>
        ELSE IF RsiGt(rsi, 70) THEN <<"rsi-overbought">> ELSE <<>>)
    \o (IF 0 < pe.v /\ pe.v < 25 THEN <<"low-valuation">> ELSE <<>>)
    \o (IF FracLt(Frac(15, 10), vol_ratio) THEN <<"volume-surge">> ELSE <<>>)

\* line 153: the "too calm" filter
Suppressed(drop_pct, rsi) == FracLt(Frac(-5, 100), drop_pct) /\ RsiGt(rsi, 50)

UncappedScore(score) == score

\* line 165: min(score, 100)
CappedScore(score) == IF score < SCORE_CAP THEN score ELSE SCORE_CAP

NoLocals == [curr_price |-> Unset, pe |-> Unset, high_52 |-> Unset, rsi |-> Unset,
             drop_pct |-> Frac(0, 1), vol_ratio |-> Frac(1, 1)]

\* leaving the try block without a row: kind is "none" (a return None) or
\* "raise" (an exception), at is the place, locals the values computed so far
NoRow(kind, at, locals) ==
    [kind |-> kind, at |-> at, exc |-> FALSE, locals |-> locals,
     code |-> <<>>, name |-> <<>>, sector |-> <<>>, price |-> 0, pe |-> 0,
     drop_tenths |-> 0, rsi |-> NaN, vol_tenths |-> 0, score |-> 0, tags |-> <<>>]

\* the body of the try block, lines 85-167
VerifyBody(clean_symbol, md) ==
    IF md.ctor = "raise" THEN NoRow("raise", "ticker", NoLocals)
    ELSE
    LET info == IF md.info_raises THEN EmptyInfo ELSE md.info
        curr_price == CurrentPrice(md, info)
        l1 == [NoLocals EXCEPT !.curr_price = curr_price]
    IN
    IF IsNum(curr_price) /\ curr_price.v = 0 THEN NoRow("none", "price", l1)
    ELSE
    LET pe == ValuationRatio(info)
        sector == DictGet(info.sector, Text(<<"U","n","k","n","o","w","n">>))
        name == DictGet(info.shortName, Text(clean_symbol))
        l2 == [l1 EXCEPT !.pe = pe]
    IN
    IF md.hist_raises THEN NoRow("raise", "history-raise", l2)
    ELSE IF md.hist = <<>> THEN NoRow("none", "history-empty", l2)
    ELSE
    LET hist == md.hist
        high_52 == ReferenceHigh(info, hist, curr_price)
        l3 == [l2 EXCEPT !.high_52 = high_52]
    IN
    \* line 121: None in the arithmetic is a TypeError, a zero high a
    \* ZeroDivisionError
    IF ~IsNum(curr_price) \/ ~IsNum(high_52) THEN NoRow("raise", "drawdown-type", l3)
    ELSE IF high_52.v = 0 THEN NoRow("raise", "drawdown-zero", l3)
    ELSE
    LET drop_pct == Frac(curr_price.v - high_52.v, high_52.v)
        rsi_series == TaRsi(Closes(hist), md.rsi)
        l4 == [l3 EXCEPT !.drop_pct = drop_pct]
    IN
    \* line 124 raises, or line 125 reads .empty of None
    IF rsi_series.k = "raise" THEN NoRow("raise", "rsi-raise", l4)
    ELSE IF rsi_series.k = "none" THEN NoRow("raise", "rsi-none", l4)
    ELSE
    LET rsi == IF rsi_series.len # 0 THEN rsi_series.last ELSE Num(50)
        vol_ratio == VolumeRatio(hist)
        score == RawScore(drop_pct, rsi, pe, vol_ratio)
        reasons == Reasons(drop_pct, rsi, pe, vol_ratio)
        l5 == [l4 EXCEPT !.rsi = rsi, !.vol_ratio = vol_ratio]
    IN
    IF Suppressed(drop_pct, rsi) THEN NoRow("none", "suppressed", l5)
    ELSE
        [kind |-> "row", at |-> "return", exc |-> FALSE, locals |-> l5,
         code |-> clean_symbol,
         name |-> name.s,
         sector |-> sector.s,
         price |-> curr_price.v,
         pe |-> pe.v,
         drop_tenths |-> RoundHalfEven(1000 * drop_pct.n, drop_pct.d),
         rsi |-> rsi,
         vol_tenths |-> RoundHalfEven(10 * vol_ratio.n, vol_ratio.d),
         score |-> CappedScore(score),
         tags |-> IF reasons # <<>> THEN reasons ELSE <<"steady">>]

\* an exception leaves the function
PropagateException(r) == r

\* lines 169-171: except Exception: return None
CatchException(r) ==
    IF r.kind = "raise" THEN [r EXCEPT !.kind = "none", !.exc = TRUE] ELSE r

verify_stock_yahoo(symbol, md) == CatchException(VerifyBody(CleanSymbol(symbol), md))

(***************************************************************************)
(* Sample answers of the market-data collaborator.                         *)
(***************************************************************************)
ShortLen == 3

TECH == <<"T","e","c","h">>
ACME == <<"A","c","m","e">>

InfoRecords ==
    { [currentPrice |-> cp, regularMarketPrice |-> rmp,
       forwardPE |-> fpe, trailingPE |-> tpe, fiftyTwoWeekHigh |-> hi,
       sector |-> tx[1], shortName |-> tx[2]] :
        cp \in {Absent, Null, Num(0), Num(80)},
        rmp \in {Absent, Num(100)},
        fpe \in {Absent, Null, Num(20), Num(30)},
        tpe \in {Absent, Null, Num(-5), Num(12)},
        hi \in {Absent, Null, Num(0), Num(100)},
        tx \in {<<AbsentText, AbsentText>>, <<Text(TECH), Text(ACME)>>} }

\* a history of n sessions closing at `close`, the last one at `last_close`,
\* trading `vol` shares a session and `last_vol` in the last one
History(n, close, last_close, vol, last_vol) ==
    [i \in 1..n |-> IF i = n THEN [Close |-> last_close, Volume |-> last_vol]
                             ELSE [Close |-> close, Volume |-> vol]]

HistoryLengths == {ShortLen, RSI_LENGTH, RSI_LENGTH + 1}

Histories ==
    {<<>>} \cup
    UNION { { History(n, 100, 100, 10, 10),    \* steady volume, ratio 1.0
              History(n, 120, 90, 10, 30),     \* a volume surge, window high 120
              History(n, 100, 80, 0, 0) }      \* no volume at all
            : n \in HistoryLengths }

\* what ta.rsi can answer for a close series of n > 0 observations: below the
\* period the library returns None, or (other builds) a series of NaN; the
\* first number needs RSI_LENGTH + 1 closes
LibraryRsi(n) ==
    IF n < RSI_LENGTH THEN {Raises, [k |-> "none", v |-> 0], NaN}
    ELSE IF n = RSI_LENGTH THEN {Raises, NaN}
    ELSE {Raises, NaN, Num(30), Num(45), Num(60), Num(80)}

FastPrices == {Raises, Null, Num(0), Num(80), Num(100)}

MarketAnswer(ctor, info_raises, info, fast, hist_raises, hist, rsi) ==
    [ctor |-> ctor, info_raises |-> info_raises, info |-> info, fast |-> fast,
     hist_raises |-> hist_raises, hist |-> hist, rsi |-> rsi]

\* every combination the later steps can tell apart: a step that raises makes
\* the answers of the steps it replaces irrelevant, so those are fixed
MarketAnswers ==
    { MarketAnswer("raise", FALSE, EmptyInfo, Raises, TRUE, <<>>, Raises) }
    \cup
    { MarketAnswer("ok", ir[1], ir[2], fast, hr[1], hr[2], hr[3]) :
        ir \in {<<TRUE, EmptyInfo>>} \cup {<<FALSE, i>> : i \in InfoRecords},
        fast \in FastPrices,
        hr \in {<<TRUE, <<>>, Raises>>, <<FALSE, <<>>, Raises>>}
               \cup UNION { {<<FALSE, h, x>> : x \in LibraryRsi(Len(h))}
                            : h \in Histories \ {<<>>} } }

(***************************************************************************)
(* Study of the cleaning code alone: CleanSymbol applied to sample strings *)
(***************************************************************************)
MaxParts == 4

Pieces ==
    { <<" ">>, <<".">>, <<"b">>, <<"b","r","k">>,
      <<"n","a","s","d","a","q",":">>, <<"N","Y","S","E",":">>,
      <<"N","A","S">>, <<"D","A","Q",":">> }

RECURSIVE Texts(_)
Texts(n) ==
    IF n = 0 THEN {<<>>}
    ELSE Texts(n - 1) \cup {p \o t : p \in Pieces, t \in Texts(n - 1)}

NASDAQ_BRK_B == <<"n","a","s","d","a","q",":","b","r","k",".","b">>
BRK_B == <<"B","R","K","-","B">>
AAPL == <<"A","A","P","L">>

NotReturned == NoRow("none", "not-called", NoLocals)

NormIdle ==
    /\ norm_in = <<>>
    /\ norm_out = [done |-> FALSE, s |-> <<>>]

VerifyIdle ==
    /\ v_sym = <<>>
    /\ v_md = MarketAnswer("raise", FALSE, EmptyInfo, Raises, TRUE, <<>>, Raises)
    /\ v_ret = [done |-> FALSE, r |-> NotReturned]

\* lines 80-82 run on norm_in
Clean ==
    /\ ~norm_out.done
    /\ norm_out' = [done |-> TRUE, s |-> CleanSymbol(norm_in)]
    /\ UNCHANGED <<norm_in, verifyVars, sessionVars>>

\* one call of verify_stock_yahoo(v_sym) against the answers v_md
Verify ==
    /\ ~v_ret.done
    /\ v_ret' = [done |-> TRUE, r |-> verify_stock_yahoo(v_sym, v_md)]
    /\ UNCHANGED <<v_sym, v_md, normVars, sessionVars>>

(***************************************************************************)
(* The Streamlit session, lines 175-250.  Every user interaction reruns    *)
(* the script from the top; st.session_state is what survives a rerun.     *)
(***************************************************************************)
COOLDOWN_SEC == 30
SessionStart == 1700000000
TickSec == 15
MaxTicks == 2
MaxPicks == 3
MaxBatch == 5

NoValue == [present |-> FALSE, value |-> <<>>]
Held(v) == [present |-> TRUE, value |-> v]

\* lines 190-200: which button the cooldown block renders
CooldownButton(current_time, ss) ==
    LET time_since_last_run == current_time - ss.last_run_time
        time_remaining == COOLDOWN_SEC - time_since_last_run
    IN  IF time_remaining > 0 THEN "cooldown" ELSE "active"

\* tickers as the parser of get_ai_picks leaves them: trimmed, upper case
Universe ==
    << AAPL, <<"B","R","K",".","B">>, <<"M","S","F","T">>, <<"T","T","D">>,
       <<"N","V","D","A">>, <<"A","M","D">> >>

TickerAt(i) == Universe[((i - 1) % Len(Universe)) + 1]

\* lines 57-75: what get_ai_picks can return: [] (no key, a failed call, an
\* empty answer) or the tickers the model named
PickLists(longest) ==
    { [i \in 1..n |-> TickerAt(i + o)] : n \in 0..longest, o \in {0, 3} }

\* sample answers for the tickers of a batch
ValueInfo(fpe) ==
    [currentPrice |-> Absent, regularMarketPrice |-> Absent,
     forwardPE |-> fpe, trailingPE |-> Absent, fiftyTwoWeekHigh |-> Num(100),
     sector |-> Text(TECH), shortName |-> Text(ACME)]

LongHistory == History(RSI_LENGTH + 1, 100, 100, 10, 10)

DeepValue ==
    MarketAnswer("ok", FALSE, ValueInfo(Num(20)), Num(80), FALSE, LongHistory, Num(30))
MidValue ==
    MarketAnswer("ok", FALSE, ValueInfo(Absent), Num(80), FALSE, LongHistory, Num(30))
Calm ==
    MarketAnswer("ok", FALSE, ValueInfo(Num(20)), Num(100), FALSE, LongHistory, Num(60))
NoPrice ==
    MarketAnswer("ok", TRUE, EmptyInfo, Raises, FALSE, LongHistory, Num(30))
TickerRaises ==
    MarketAnswer("raise", FALSE, EmptyInfo, Raises, TRUE, <<>>, Raises)
HistoryRaises ==
    MarketAnswer("ok", FALSE, ValueInfo(Num(20)), Num(80), TRUE, <<>>, Raises)
RsiRaises ==
    MarketAnswer("ok", FALSE, ValueInfo(Num(20)), Num(80), FALSE, LongHistory, Raises)

HealthyAnswers == {DeepValue, MidValue}
RaisingAnswers == {TickerRaises, HistoryRaises, RsiRaises}
SessionAnswers == HealthyAnswers \cup RaisingAnswers \cup {Calm, NoPrice}

\* lines 156-167: the dictionary returned (prices, ratios and RSI values are
\* whole numbers here, which round(x, 2) and round(x, 1) leave as they are)
Row(data) ==
    [code |-> data.code, name |-> data.name, sector |-> data.sector,
     price |-> data.price, pe |-> data.pe, drop_tenths |-> data.drop_tenths,
     rsi |-> data.rsi, vol_tenths |-> data.vol_tenths, score |-> data.score,
     tags |-> data.tags]

Descending(table) ==
    \A i \in 1..(Len(table) - 1) : table[i].score >= table[i + 1].score

\* line 243: sort_values(by score, ascending=False) with the default
\* kind='quicksort', which is not a stable sort: rows of equal score may
\* come out in any order
SortValues(rows) ==
    { [i \in 1..Len(rows) |-> rows[p[i]]] :
        p \in { q \in [1..Len(rows) -> 1..Len(rows)] :
                  /\ \A i, j \in 1..Len(rows) : i # j => q[i] # q[j]
                  /\ Descending([i \in 1..Len(rows) |-> rows[q[i]]]) } }

NoTally == [healthy |-> 0, raising |-> 0]

NoRun == [completed |-> FALSE, tickers |-> 0, processed |-> 0,
          healthy |-> 0, raising |-> 0, rows |-> <<>>]

SessionInit ==
    /\ now = SessionStart
    /\ session_state = [last_run_time |-> 0, ai_picks |-> NoValue,
                        final_result |-> NoValue]
    /\ button = CooldownButton(SessionStart, [last_run_time |-> 0])
    /\ pc = "idle"
    /\ idx = 0
    /\ results = <<>>
    /\ crashed = FALSE
    /\ tally = NoTally
    /\ run_log = NoRun
    /\ pick_calls = [n |-> 0, prev |-> 0, last |-> 0]

\* time passes between two script runs
Tick ==
    /\ pc = "idle"
    /\ now < SessionStart + MaxTicks * TickSec
    /\ now' = now + TickSec
    /\ UNCHANGED <<session_state, button, pc, idx, results, crashed, tally,
                   run_log, pick_calls, normVars, verifyVars>>

\* a rerun that clicks neither button (the sidebar text input changed)
Rerun ==
    /\ pc = "idle"
    /\ button' = CooldownButton(now, session_state)
    /\ UNCHANGED <<now, session_state, pc, idx, results, crashed, tally,
                   run_log, pick_calls, normVars, verifyVars>>

\* lines 195-206: a click on the active AI-pick button and the rerun it causes
ClickAiPick(longest) ==
    /\ pc = "idle"
    /\ button = "active"
    /\ button' = CooldownButton(now, session_state)
    /\ IF button' = "cooldown"
       THEN UNCHANGED <<session_state, pick_calls>>
       ELSE \E picks \in PickLists(longest) :
              /\ session_state' =
                    IF picks # <<>>
                    THEN [session_state EXCEPT !.ai_picks = Held(picks)]
                    ELSE session_state
              /\ pick_calls' = [n |-> IF pick_calls.n < 2 THEN pick_calls.n + 1 ELSE 2,
                                prev |-> pick_calls.last, last |-> now]
    /\ UNCHANGED <<now, pc, idx, results, crashed, tally, run_log,
                   normVars, verifyVars>>

\* lines 217-224: a click on the verification button; the rerun reaches the
\* batch loop
ClickVerify ==
    /\ pc = "idle"
    /\ session_state.ai_picks.present
    /\ button' = CooldownButton(now, session_state)
    /\ pc' = "batch"
    /\ idx' = 0
    /\ results' = <<>>
    /\ tally' = NoTally
    /\ run_log' = NoRun
    /\ UNCHANGED <<now, session_state, crashed, pick_calls, normVars, verifyVars>>

\* lines 226-246: one iteration of the batch loop; the iteration that ends the
\* loop also sorts and stores the table
BatchStep ==
    /\ pc = "batch"
    /\ \E md \in SessionAnswers :
         LET target_list == session_state.ai_picks.value
             ticker == target_list[idx + 1]
             data == verify_stock_yahoo(ticker, md)
             appended == IF data.kind = "row" THEN Append(results, Row(data))
                                              ELSE results
             counted == [healthy |-> tally.healthy + (IF md \in HealthyAnswers THEN 1 ELSE 0),
                         raising |-> tally.raising + (IF md \in RaisingAnswers THEN 1 ELSE 0)]
         IN
         IF data.kind = "raise"
         THEN \* the exception ends the script run
              /\ crashed' = TRUE
              /\ pc' = "idle"
              /\ UNCHANGED <<session_state, idx, results, tally, run_log>>
         ELSE /\ results' = appended
              /\ idx' = idx + 1
              /\ tally' = counted
              /\ UNCHANGED crashed
              /\ IF idx + 1 < Len(target_list)
                 THEN /\ pc' = "batch"
                      /\ UNCHANGED <<session_state, run_log>>
                 ELSE /\ pc' = "idle"
                      /\ run_log' = [completed |-> TRUE, tickers |-> Len(target_list),
                                     processed |-> idx + 1,
                                     healthy |-> counted.healthy,
                                     raising |-> counted.raising,
                                     rows |-> appended]
                      /\ IF appended # <<>>
                         THEN \E df \in SortValues(appended) :
                                session_state' =
                                    [session_state EXCEPT !.final_result = Held(df)]
                         ELSE UNCHANGED session_state
    /\ UNCHANGED <<now, button, pick_calls, normVars, verifyVars>>

(***************************************************************************)
(* Specifications                                                          *)
(***************************************************************************)
Init ==
    /\ NormIdle
    /\ VerifyIdle
    /\ SessionInit

Next == Tick \/ Rerun \/ ClickAiPick(MaxPicks) \/ ClickVerify \/ BatchStep

\* the session
Spec == Init /\ [][Next]_vars

FirstPick == ClickAiPick(MaxBatch) /\ ~session_state.ai_picks.present
FirstVerify == ClickVerify /\ ~run_log.completed /\ ~crashed

NextBatch == FirstPick \/ FirstVerify \/ BatchStep

\* one recommendation run that stores a list of up to MaxBatch tickers,
\* then verification runs until one has run to its end
SpecBatch == Init /\ [][NextBatch]_vars

InitClean ==
    /\ norm_in \in Texts(MaxParts)
    /\ norm_out = [done |-> FALSE, s |-> <<>>]
    /\ VerifyIdle
    /\ SessionInit

NextClean == Clean

\* the cleaning code on every sample string
SpecClean == InitClean /\ [][NextClean]_vars

InitVerify ==
    /\ NormIdle
    /\ v_sym \in {NASDAQ_BRK_B}
    /\ v_md \in MarketAnswers
    /\ v_ret = [done |-> FALSE, r |-> NotReturned]
    /\ SessionInit

NextVerify == Verify

\* verify_stock_yahoo on every sample answer of the collaborator
SpecVerify == InitVerify /\ [][NextVerify]_vars

(***************************************************************************)
(* Properties                                                              *)
(***************************************************************************)
HeldRows == IF session_state.final_result.present
            THEN session_state.final_result.value ELSE <<>>

Count(rows, r) == Cardinality({i \in 1..Len(rows) : rows[i] = r})

SameRows(a, b) ==
    /\ Len(a) = Len(b)
    /\ \A i \in 1..Len(a) : Count(a, a[i]) = Count(b, a[i])

\* C1: the batch loop tolerates partial failure.  No exception escapes a
\* script run; while the loop runs it holds one row per healthy ticker seen
\* so far; when it ends every ticker was processed, tickers that raised gave
\* no row, and the run's rows, which are the table it stores when there are
\* any, are exactly one per ticker that neither failed nor was suppressed.
C1_PartialFailureTolerated ==
    /\ ~crashed
    /\ pc = "batch" => Len(results) = tally.healthy
    /\ run_log.completed =>
         /\ run_log.processed = run_log.tickers
         /\ run_log.healthy + run_log.raising <= run_log.tickers
         /\ Len(run_log.rows) = run_log.healthy
         /\ run_log.rows # <<>> =>
              /\ Len(HeldRows) = run_log.healthy
              /\ SameRows(HeldRows, run_log.rows)

\* five tickers of which two raised: three rows
C1_Witness ==
    /\ run_log.completed
    /\ run_log.tickers = 5
    /\ run_log.raising = 2
    /\ Len(HeldRows) = 3

Indicator(b) == IF b THEN 1 ELSE 0

\* the rule of the claim, on the metrics the call computed (the reference
\* high of every sample is positive)
ClaimedScore(l) ==
    LET total == 40 * Indicator(100 * l.drop_pct.n < (0 - 15) * l.drop_pct.d)
               + 30 * Indicator(l.rsi.k = "num" /\ l.rsi.v < 40)
               + 30 * Indicator(0 < l.pe.v /\ l.pe.v < 25)
               + 10 * Indicator(10 * l.vol_ratio.n > 15 * l.vol_ratio.d)
    IN  IF total > 100 THEN 100 ELSE total

IsExampleMetrics(l, pe) ==
    /\ l.drop_pct.d > 0
    /\ 100 * l.drop_pct.n = (0 - 20) * l.drop_pct.d
    /\ l.rsi = Num(30)
    /\ l.pe = Num(pe)
    /\ l.vol_ratio.n = l.vol_ratio.d

\* C2: every emitted row carries min(100, 40 [drawdown < -0.15] + 30 [RSI < 40]
\* + 30 [0 < valuation < 25] + 10 [volume ratio > 1.5]), an integer in 0..100;
\* drawdown -0.20, RSI 30, valuation 20, volume ratio 1.0 scores 100, and with
\* valuation 0 it scores 70; a valuation of 0 or below never earns the +30.
C2_ScoreRule ==
    (v_ret.done /\ v_ret.r.kind = "row") =>
        /\ v_ret.r.locals.drop_pct.d > 0
        /\ v_ret.r.score = ClaimedScore(v_ret.r.locals)
        /\ v_ret.r.score \in 0..100
        /\ IsExampleMetrics(v_ret.r.locals, 20) => v_ret.r.score = 100
        /\ IsExampleMetrics(v_ret.r.locals, 0) => v_ret.r.score = 70
        /\ (v_ret.r.locals.pe.v <= 0 /\ v_ret.r.locals.rsi = Num(30)
              /\ v_ret.r.locals.vol_ratio.n = v_ret.r.locals.vol_ratio.d)
           => v_ret.r.score <= 70

C2_Witness ==
    /\ v_ret.done
    /\ v_ret.r.kind = "row"
    /\ IsExampleMetrics(v_ret.r.locals, 20)
    /\ v_ret.r.score = 100

IndexIn(rows, r) == CHOOSE i \in 1..Len(rows) : rows[i] = r

\* C3: the stored table is sorted by descending score, and two rows of equal
\* score stand in the order in which the batch loop appended them.
C3_SortIsStable ==
    (run_log.completed /\ run_log.rows # <<>>) =>
        /\ Descending(HeldRows)
        /\ \A i, j \in 1..Len(HeldRows) :
             (i < j /\ HeldRows[i].score = HeldRows[j].score)
             => IndexIn(run_log.rows, HeldRows[i]) < IndexIn(run_log.rows, HeldRows[j])

\* C4: cleaning "nasdaq:brk.b" gives "BRK-B"; cleaning is idempotent; and the
\* clean form holds no exchange prefix, no dot and no leading or trailing
\* whitespace.
C4_CleanIsIdempotent ==
    norm_out.done =>
        /\ norm_in = NASDAQ_BRK_B => norm_out.s = BRK_B
        /\ CleanSymbol(norm_out.s) = norm_out.s
        /\ ~Contains(norm_out.s, NASDAQ_PREFIX)
        /\ ~Contains(norm_out.s, NYSE_PREFIX)
        /\ ~Contains(norm_out.s, <<".">>)
        /\ Strip(norm_out.s) = norm_out.s

\* the info record the call works with
InfoSeen(md) == IF md.info_raises THEN EmptyInfo ELSE md.info

Usable(x) == IsNum(x) /\ x.v # 0

\* the price sources in the order of the claim
PriceSources(md) ==
    << md.fast, InfoSeen(md).currentPrice, InfoSeen(md).regularMarketPrice >>

FirstUsable(srcs) ==
    srcs[CHOOSE i \in 1..Len(srcs) :
            /\ Usable(srcs[i])
            /\ \A j \in 1..(i - 1) : ~Usable(srcs[j])]

\* the call ended for want of a price: the return of line 102, or the
\* TypeError of line 121 on a price that is None
DroppedForPrice(r) ==
    /\ r.kind = "none"
    /\ \/ r.at = "price"
       \/ r.at = "drawdown-type" /\ ~IsNum(r.locals.curr_price)

\* C5: the call drops the ticker for its price only when no source (fast
\* last_price, info currentPrice, info regularMarketPrice) holds a usable
\* price, and then gives no row; when a source does, the first usable one is
\* the price used.
C5_PriceFallbacksExhausted ==
    (v_ret.done /\ v_md.ctor = "ok") =>
        LET srcs == PriceSources(v_md)
            some == \E i \in 1..Len(srcs) : Usable(srcs[i])
        IN  /\ DroppedForPrice(v_ret.r) => ~some
            /\ ~some => v_ret.r.kind = "none"
            /\ some => v_ret.r.locals.curr_price = FirstUsable(srcs)

\* the call got as far as line 118
ReachedHigh(r) == r.locals.high_52 # Unset

\* C6: the reference high is the 52-week-high field, else the window's
\* maximum close, else the current price; the denominator of the drawdown is
\* never zero.
C6_ReferenceHighChain ==
    (v_ret.done /\ ReachedHigh(v_ret.r)) =>
        LET field == InfoSeen(v_md).fiftyTwoWeekHigh
            window == SeqMax(Closes(v_md.hist))
        IN  /\ Usable(field) => v_ret.r.locals.high_52 = field
            /\ (~Usable(field) /\ window # 0) => v_ret.r.locals.high_52 = Num(window)
            /\ (~Usable(field) /\ window = 0)
               => v_ret.r.locals.high_52 = v_ret.r.locals.curr_price
            /\ v_ret.r.at # "drawdown-zero"

\* the call got as far as line 105
ReachedValuation(r) == r.locals.pe # Unset

\* C7: the valuation ratio is forwardPE when that is a number, else
\* trailingPE when that is a number, else 0.
C7_ValuationFallsBackToTrailing ==
    (v_ret.done /\ ReachedValuation(v_ret.r)) =>
        LET fpe == InfoSeen(v_md).forwardPE
            tpe == InfoSeen(v_md).trailingPE
        IN  /\ IsNum(fpe) => v_ret.r.locals.pe = fpe
            /\ (~IsNum(fpe) /\ IsNum(tpe)) => v_ret.r.locals.pe = tpe
            /\ (~IsNum(fpe) /\ ~IsNum(tpe)) => v_ret.r.locals.pe = Num(0)

\* the call got as far as line 124 and the library did not raise
ReachedRsi(r) == r.at \in {"rsi-none", "suppressed", "return"}

\* C8: with a history that is not empty but too short for a 14-period RSI
\* the call does not fail on that account and works with the RSI 50.
C8_ShortHistoryGivesNeutralRsi ==
    (v_ret.done /\ ReachedRsi(v_ret.r) /\ Len(v_md.hist) <= RSI_LENGTH) =>
        /\ ~v_ret.r.exc
        /\ v_ret.r.locals.rsi = Num(50)
        /\ v_ret.r.kind = "row" => v_ret.r.rsi = Num(50)

\* C9: once a verification run has run to its end, the table held is made of
\* exactly the rows that run produced, whatever their number.
C9_TableIsOfTheLastRun ==
    run_log.completed => SameRows(HeldRows, run_log.rows)

\* C10: two invocations of get_ai_picks in one session are at least
\* COOLDOWN_SEC seconds apart.
C10_CooldownBetweenPicks ==
    pick_calls.n >= 2 => pick_calls.last - pick_calls.prev >= COOLDOWN_SEC

====
